---- MODULE Spec2Model ----
(***************************************************************************)
(* Model of bundle_program.py: the offline bundler that inlines the local  *)
(* assets of HTML decks and wraps the decks in a player template.          *)
(*                                                                         *)
(* Text is modelled as a sequence of tokens.  A token is one span of the   *)
(* text as the regular expressions of the bundler see it: a span matched   *)
(* by LINK_CSS_RE, by SCRIPT_SRC_RE or by IMG_SRC_RE (with the reference   *)
(* it captures), or a span that none of them matches.                      *)
(***************************************************************************)
EXTENDS Integers, Sequences, FiniteSets, TLC

VARIABLES
  \* ---- process_html on one document (SpecDoc)
  raw,          \* the document as read_text returns it
  html_text,    \* the text being rewritten (html_text, inlined in process_html)
  deck_html,    \* html_text of main after the charset step (lines 212-213)
  dtitle,       \* the title extract_title returns
  dpc,          \* position in process_html and the loop body of main
  touched,      \* references for which the filesystem was accessed
  sub_in,       \* the text the last re.sub call scanned
  chunks,       \* what the last re.sub call emitted for each token it scanned
  \* ---- main (Spec)
  inputs,       \* args.inputs, resolved
  pc,           \* position in main
  v,            \* index of the validation loop (lines 204-206)
  k,            \* index of the processing loop (lines 209-217)
  decks,        \* the list decks
  processed,    \* input paths handed to process_html, in call order
  program_title,
  decks_js,     \* the deck literal, one entry per deck
  err,          \* the exception that ended the run, "" when none
  writes,       \* number of writes of the output file
  printed,      \* whether "Wrote ..." was printed
  \* ---- the deck literal and its evaluation by the player (SpecEscape)
  s,            \* a title or content string
  lit,          \* the backtick literal main emits for it
  ev,           \* what the player's script gets when it evaluates lit
  epc,
  \* ---- the player script of RUNNER_TEMPLATE (SpecPlayer)
  total,        \* DECKS.length
  hash,         \* location.hash at load
  idx,          \* the cursor
  shown,        \* deck whose html is in the frame (0: none)
  frag,         \* position written by history.replaceState (0: none)
  last,         \* the last event dispatched and the cursor it found
  ppc

docVars    == <<raw, html_text, deck_html, dtitle, dpc, touched, sub_in, chunks>>
mainVars   == <<inputs, pc, v, k, decks, processed, program_title, decks_js,
                err, writes, printed>>
escVars    == <<s, lit, ev, epc>>
playerVars == <<total, hash, idx, shown, frag, last, ppc>>
vars       == <<docVars, mainVars, escVars, playerVars>>

(***************************************************************************)
(* Bounds of the model.                                                    *)
(***************************************************************************)
MaxDoc == 2
MaxInputs == 2
MaxStr == 3
MaxDecks == 3
MaxHash == 2

(***************************************************************************)
(* References and tokens.                                                  *)
(***************************************************************************)
\* A reference is the string scheme \o rest.
Ref(scheme, rest) == [scheme |-> scheme, rest |-> rest]
NoRef == Ref("", "")

Tok(kind, ref, text) == [kind |-> kind, ref |-> ref, lit |-> text]
Link(r)   == Tok("link", r, "<link rel=\"stylesheet\" href=..>")
Script(r) == Tok("script", r, "<script src=..></script>")
Img(r)    == Tok("img", r, "<img src=..>")
Text(x)   == Tok("text", NoRef, x)
HeadTag(x)  == Tok("head", NoRef, x)
MetaTag(x)  == Tok("meta", NoRef, x)
TitleTag(x) == Tok("title", NoRef, x)
\* The elements the inliner emits.  Their ref field records the reference
\* they were produced for; it is an annotation, not part of the text.
StyleOpen(r)   == Tok("style_open", r, "<style>\n")
StyleClose     == Tok("style_close", NoRef, "\n</style>")
ScriptOpen(r)  == Tok("script_open", r, "<script>\n")
ScriptClose    == Tok("script_close", NoRef, "\n</script>")

RemoteRefs == { Ref("http://", "cdn/r"), Ref("https://", "cdn/r"),
                Ref("data:", "image/gif;base64,R0lG") }
LocalRefs  == { Ref("", "site.css"), Ref("", "app.js"), Ref("", "logo.png"),
                Ref("", "gone.css"), Ref("", "assets"), Ref("", "toolong"),
                Ref("", "nul") }
Refs == RemoteRefs \cup LocalRefs

(***************************************************************************)
(* The filesystem under base_dir.                                          *)
(*   file    : exists and can be read                                      *)
(*   dir     : exists, reading it raises (caught by the try of the repl)   *)
(*   missing : exists() is False                                           *)
(*   toolong : exists() raises OSError (ENAMETOOLONG)                      *)
(*   nul     : resolve() raises ValueError (embedded null byte)            *)
(***************************************************************************)
Stat(r) ==
  CASE r = Ref("", "site.css") -> "file"
    [] r = Ref("", "app.js")   -> "file"
    [] r = Ref("", "logo.png") -> "file"
    [] r = Ref("", "assets")   -> "dir"
    [] r = Ref("", "toolong")  -> "toolong"
    [] r = Ref("", "nul")      -> "nul"
    [] OTHER                   -> "missing"

\* What read_text returns for a file.
FileText(r) ==
  CASE r = Ref("", "site.css") ->
         << Text("/* "), Script(Ref("", "app.js")), Text(" */ body{}") >>
    [] r = Ref("", "app.js")   ->
         << Text("document.write('"), Img(Ref("", "logo.png")), Text("')") >>
    [] r = Ref("", "logo.png") -> << Text("PNG") >>
    [] OTHER                   -> << >>

\* to_data_uri: "data:" + guessed mime type + ";base64," + payload.
to_data_uri(r) ==
  Ref("data:",
      CASE r = Ref("", "logo.png") -> "image/png;base64,UE5H"
        [] r = Ref("", "site.css") -> "text/css;base64,LyogPHNjcmlwdA=="
        [] r = Ref("", "app.js")   -> "text/javascript;base64,ZG9jdW1lbnQ="
        [] OTHER                   -> "application/octet-stream;base64,")

(***************************************************************************)
(* Asset resolver and the three repl callbacks.  A callback returns what   *)
(* it emits for the match (out), the references it accessed the            *)
(* filesystem for (fs) and whether it let an exception escape (raised).    *)
(***************************************************************************)
\* is_remote without the 'data:' prefix.
is_remote_no_data(url) == url.scheme \in {"http://", "https://"}

is_remote(url) == url.scheme \in {"http://", "https://", "data:"}

Emit(out, fs, raised) == [out |-> out, fs |-> fs, raised |-> raised]

\* The steps the three callbacks share: (base_dir / ref).resolve(), then
\* exists(), then the read inside try/except.  inlined is what the
\* callback returns when the read succeeds.
LocalAsset(t, inlined) ==
  LET st == Stat(t.ref) IN
  CASE st = "nul"     -> Emit(<< >>, {t.ref}, TRUE)    \* resolve() raises
    [] st = "toolong" -> Emit(<< >>, {t.ref}, TRUE)    \* exists() raises
    [] st = "missing" -> Emit(<<t>>, {t.ref}, FALSE)   \* return m.group(0)
    [] st = "dir"     -> Emit(<<t>>, {t.ref}, FALSE)   \* except: m.group(0)
    [] OTHER          -> Emit(inlined, {t.ref}, FALSE)

repl_link(t) ==
  IF is_remote(t.ref) THEN Emit(<<t>>, {}, FALSE)
  ELSE LocalAsset(t, <<StyleOpen(t.ref)>> \o FileText(t.ref) \o <<StyleClose>>)

repl_script(t) ==
  IF is_remote(t.ref) THEN Emit(<<t>>, {}, FALSE)
  ELSE LocalAsset(t, <<ScriptOpen(t.ref)>> \o FileText(t.ref) \o <<ScriptClose>>)

repl_img(t) ==
  IF is_remote(t.ref) THEN Emit(<<t>>, {}, FALSE)
  ELSE LocalAsset(t, << Img(to_data_uri(t.ref)) >>)

\* pattern.sub(repl, text): every token the pattern matches goes through
\* repl, every other token is copied.  An exception escaping repl ends the
\* call: that match and the text after it are never emitted.
Repl(pass, t) ==
  CASE t.kind # pass   -> Emit(<<t>>, {}, FALSE)
    [] pass = "link"   -> repl_link(t)
    [] pass = "script" -> repl_script(t)
    [] OTHER           -> repl_img(t)

Sub(pass, text) ==
  LET n      == Len(text)
      bad    == { j \in 1..n : Repl(pass, text[j]).raised }
      stop   == IF bad = {} THEN n + 1
                ELSE CHOOSE j \in bad : \A j2 \in bad : j <= j2
  IN [ chunks |-> [ j \in 1..(stop - 1) |-> Repl(pass, text[j]).out ],
       fs     |-> UNION { Repl(pass, text[j]).fs : j \in { i \in 1..n : i <= stop } },
       raised |-> bad # {} ]

RECURSIVE Flatten(_)
Flatten(cs) == IF cs = << >> THEN << >> ELSE Head(cs) \o Flatten(Tail(cs))

(***************************************************************************)
(* extract_title and the charset step of main.                             *)
(***************************************************************************)
\* html.unescape(...).strip() on the title texts of the model.
UnescapeStrip(x) ==
  CASE x = "  "        -> ""
    [] x = "A &amp; B" -> "A & B"
    [] OTHER           -> x

extract_title(text, fallback) ==
  LET hits == { j \in 1..Len(text) : text[j].kind = "title" } IN
  IF hits = {} THEN fallback
  ELSE LET m == CHOOSE j \in hits : \A j2 \in hits : j <= j2
           t == UnescapeStrip(text[m].lit)
       IN IF t = "" THEN fallback ELSE t

\* str.lower() on the spans of the model.
Lower(x) ==
  CASE x = "<HEAD>"                   -> "<head>"
    [] x = "<META CHARSET=\"utf-8\">" -> "<meta charset=\"utf-8\">"
    [] OTHER                          -> x

\* '<meta charset' in x, for a lowered span x.
ContainsMetaCharset(x) ==
  x \in {"<meta charset=\"utf-8\">", "<meta charset=\"utf-8\" />"}

HasMetaCharset(text) ==
  \E j \in 1..Len(text) : ContainsMetaCharset(Lower(text[j].lit))

\* text.replace('<head>', '<head>\n  <meta charset="utf-8" />', 1)
InjectedMeta == << Text("\n  "), MetaTag("<meta charset=\"utf-8\" />") >>

ReplaceFirstHead(text) ==
  LET hits == { j \in 1..Len(text) : text[j].lit = "<head>" } IN
  IF hits = {} THEN text
  ELSE LET m == CHOOSE j \in hits : \A j2 \in hits : j <= j2
       IN SubSeq(text, 1, m) \o InjectedMeta \o SubSeq(text, m + 1, Len(text))

EnsureCharset(text) ==
  IF ~HasMetaCharset(text) THEN ReplaceFirstHead(text) ELSE text

(***************************************************************************)
(* Values of the variables a specification does not use.                   *)
(***************************************************************************)
JSNum(n) == [nan |-> FALSE, n |-> n]
NaN      == [nan |-> TRUE, n |-> 0]
NoEvent  == [ev |-> "none", from |-> JSNum(0)]
NoEval   == [closed |-> 0, value |-> << >>, subst |-> FALSE]

DocIdle ==
  /\ raw = << >> /\ html_text = << >> /\ deck_html = << >>
  /\ dtitle = "" /\ dpc = "idle"
  /\ touched = {} /\ sub_in = << >> /\ chunks = << >>

MainIdle ==
  /\ inputs = << >> /\ pc = "idle" /\ v = 1 /\ k = 1 /\ decks = << >>
  /\ processed = << >> /\ program_title = << >> /\ decks_js = << >>
  /\ err = "" /\ writes = 0 /\ printed = FALSE

EscIdle == s = << >> /\ lit = << >> /\ ev = NoEval /\ epc = "idle"

PlayerIdle ==
  /\ total = 1 /\ hash = << >> /\ idx = JSNum(0) /\ shown = 0 /\ frag = 0
  /\ last = NoEvent /\ ppc = "idle"

(***************************************************************************)
(* SpecDoc: process_html on one document, then the charset step that the   *)
(* loop body of main applies to its result.                                *)
(***************************************************************************)
HeadForms  == {"<head>", "<HEAD>", "<head lang=\"en\">"}
MetaForms  == {"<meta charset=\"utf-8\">", "<META CHARSET=\"utf-8\">"}
TitleForms == {"Intro", "  ", "A &amp; B"}

DocTokens ==
  {Text("<p>x</p>")}
    \cup { Link(r) : r \in Refs } \cup { Script(r) : r \in Refs }
    \cup { Img(r) : r \in Refs }
    \cup { HeadTag(x) : x \in HeadForms } \cup { MetaTag(x) : x \in MetaForms }
    \cup { TitleTag(x) : x \in TitleForms }

Docs == UNION { [1..n -> DocTokens] : n \in 0..MaxDoc }

DocName == "deck.html"

InitDoc ==
  /\ raw \in Docs
  /\ html_text = << >> /\ deck_html = << >> /\ dtitle = "" /\ dpc = "read"
  /\ touched = {} /\ sub_in = << >> /\ chunks = << >>
  /\ MainIdle /\ EscIdle /\ PlayerIdle

\* line 187: raw = read_text(input_path)
ReadDoc ==
  /\ dpc = "read"
  /\ html_text' = raw
  /\ dpc' = "css"
  /\ UNCHANGED <<raw, deck_html, dtitle, touched, sub_in, chunks,
                 mainVars, escVars, playerVars>>

\* One pattern.sub(repl, html_text) call and the assignment of its result.
SubStep(pass, next) ==
  LET r == Sub(pass, html_text) IN
    /\ sub_in' = html_text
    /\ chunks' = r.chunks
    /\ touched' = touched \cup r.fs
    /\ IF r.raised
         THEN dpc' = "raised" /\ UNCHANGED html_text
         ELSE dpc' = next /\ html_text' = Flatten(r.chunks)

\* line 69
SubLinks ==
  /\ dpc = "css"
  /\ SubStep("link", "js")
  /\ UNCHANGED <<raw, deck_html, dtitle, mainVars, escVars, playerVars>>

\* line 85
SubScripts ==
  /\ dpc = "js"
  /\ SubStep("script", "img")
  /\ UNCHANGED <<raw, deck_html, dtitle, mainVars, escVars, playerVars>>

\* line 103 (called from line 191)
SubImages ==
  /\ dpc = "img"
  /\ SubStep("img", "title")
  /\ UNCHANGED <<raw, deck_html, dtitle, mainVars, escVars, playerVars>>

\* line 193
ExtractTitle ==
  /\ dpc = "title"
  /\ dtitle' = extract_title(html_text, DocName)
  /\ dpc' = "charset"
  /\ UNCHANGED <<raw, html_text, deck_html, touched, sub_in, chunks,
                 mainVars, escVars, playerVars>>

\* lines 212-213, on the text process_html returned
CharsetStep ==
  /\ dpc = "charset"
  /\ deck_html' = EnsureCharset(html_text)
  /\ dpc' = "deck"
  /\ UNCHANGED <<raw, html_text, dtitle, touched, sub_in, chunks,
                 mainVars, escVars, playerVars>>

NextDoc ==
  \/ ReadDoc \/ SubLinks \/ SubScripts \/ SubImages \/ ExtractTitle \/ CharsetStep

SpecDoc == InitDoc /\ [][NextDoc]_vars

(***************************************************************************)
(* Properties of the inlining passes and of the charset step (SpecDoc).    *)
(***************************************************************************)
\* The reference begins with http://, https:// or data:.
BeginsRemote(r) == r.scheme = "http://" \/ r.scheme = "https://" \/ r.scheme = "data:"

IsElement(t) == t.kind \in {"link", "script", "img"}

\* C8: in each of the three passes, a <link>, <script> or <img> element
\* whose reference begins with http://, https:// or data: is emitted
\* exactly as it was scanned, and the filesystem is never accessed for a
\* reference with such a prefix.
RemoteNeverRewritten ==
  /\ \A j \in 1..Len(chunks) :
       (IsElement(sub_in[j]) /\ BeginsRemote(sub_in[j].ref))
         => chunks[j] = << sub_in[j] >>
  /\ \A r \in touched : ~BeginsRemote(r)

\* C8 witness: the image pass has run over a text that holds an image with
\* a data: reference and an image it inlined.
RemoteKeptWitness ==
  /\ dpc = "title"
  /\ \E j \in 1..Len(chunks) :
       sub_in[j].kind = "img" /\ sub_in[j].ref.scheme = "data:"
  /\ \E j \in 1..Len(chunks) :
       sub_in[j].kind = "img" /\ chunks[j] # << sub_in[j] >>

\* C4: a failure while handling a local reference (resolving the path,
\* testing that it exists, reading the file) leaves the element as it was,
\* and no pass is ended by it: the document reaches the end of the passes.
SoftFailuresNeverAbort ==
  /\ dpc # "raised"
  /\ Len(chunks) = Len(sub_in)
  /\ \A j \in 1..Len(chunks) :
       (IsElement(sub_in[j]) /\ ~BeginsRemote(sub_in[j].ref)
          /\ Stat(sub_in[j].ref) # "file")
         => chunks[j] = << sub_in[j] >>

\* C10: after the three passes, every <style> or <script> element produced
\* by inlining holds the text of the file it was produced from, as read.
InlinedTextVerbatim ==
  dpc \in {"title", "charset", "deck"} =>
    \A p \in 1..Len(html_text) :
      html_text[p].kind \in {"style_open", "script_open"} =>
        LET body == FileText(html_text[p].ref)
            q    == p + Len(body) + 1
        IN /\ q <= Len(html_text)
           /\ SubSeq(html_text, p + 1, q - 1) = body
           /\ html_text[q].kind \in {"style_close", "script_close"}

\* C7: a deck with no <meta charset declaration (in any letter case) and an
\* opening head tag gets the declaration right after that tag; a deck that
\* has a declaration is left as it is.
CharsetGuarantee ==
  dpc = "deck" =>
    LET decl  == { j \in 1..Len(html_text) : html_text[j].kind = "meta" }
        heads == { j \in 1..Len(html_text) : html_text[j].kind = "head" }
    IN IF decl # {} THEN deck_html = html_text
       ELSE heads # {} =>
              LET h == CHOOSE j \in heads : \A j2 \in heads : j <= j2
              IN deck_html = SubSeq(html_text, 1, h) \o InjectedMeta
                               \o SubSeq(html_text, h + 1, Len(html_text))

(***************************************************************************)
(* SpecEscape: the backtick literal main emits for a title or content      *)
(* string (lines 223-227) and its evaluation by the script of the player   *)
(* (line 149).  Strings are sequences of characters.                       *)
(***************************************************************************)
\* The escape character (a backslash) and the delimiter (a backtick).
Bslash == "<backslash>"
Btick  == "<backtick>"

Chars == {Bslash, Btick, "$", "{", "}", "a"}

Strings == UNION { [1..n -> Chars] : n \in 0..MaxStr }

\* str.replace(c, rep) for a one-character c.
RECURSIVE Replace(_, _, _)
Replace(str, c, rep) ==
  IF str = << >> THEN << >>
  ELSE (IF Head(str) = c THEN rep ELSE << Head(str) >>) \o Replace(Tail(str), c, rep)

\* line 224: every backslash is doubled, then every backtick gets a
\* backslash in front of it.
js_string_escape(str) ==
  Replace(Replace(str, Bslash, << Bslash, Bslash >>), Btick, << Bslash, Btick >>)

\* The literal written into decks_js for one string.
Backticked(str) == << Btick >> \o js_string_escape(str) \o << Btick >>

\* Evaluation of the template literal that starts at l[1], a backtick.  closed is
\* the position of the backtick that ends it (0: never ended), value the
\* text read up to there, subst whether a ${ substitution was met: from
\* there on the text is evaluated as an expression of the player's script.
RECURSIVE TemplateScan(_, _, _)
TemplateScan(l, i, acc) ==
  IF i > Len(l) THEN [closed |-> 0, value |-> acc, subst |-> FALSE]
  ELSE CASE l[i] = Btick -> [closed |-> i, value |-> acc, subst |-> FALSE]
         [] l[i] = Bslash ->
              IF i + 1 > Len(l) THEN [closed |-> 0, value |-> acc, subst |-> FALSE]
              ELSE TemplateScan(l, i + 2, Append(acc, l[i + 1]))
         [] l[i] = "$" /\ i + 1 <= Len(l) /\ l[i + 1] = "{" ->
              [closed |-> 0, value |-> acc, subst |-> TRUE]
         [] OTHER -> TemplateScan(l, i + 1, Append(acc, l[i]))

TemplateEval(l) == TemplateScan(l, 2, << >>)

InitEscape ==
  /\ s \in Strings
  /\ lit = << >> /\ ev = NoEval /\ epc = "string"
  /\ DocIdle /\ MainIdle /\ PlayerIdle

\* lines 223-227, for one string
EmitLiteral ==
  /\ epc = "string"
  /\ lit' = Backticked(s)
  /\ epc' = "emitted"
  /\ UNCHANGED <<s, ev, docVars, mainVars, playerVars>>

\* line 149, evaluated when the Program is opened
EvalLiteral ==
  /\ epc = "emitted"
  /\ ev' = TemplateEval(lit)
  /\ epc' = "evaluated"
  /\ UNCHANGED <<s, lit, docVars, mainVars, playerVars>>

NextEscape == EmitLiteral \/ EvalLiteral

SpecEscape == InitEscape /\ [][NextEscape]_vars

\* C1: the literal emitted for a string ends at its closing backtick and
\* evaluates to exactly that string.
LiteralRoundTrip ==
  epc = "evaluated" =>
    /\ ev.closed = Len(lit)
    /\ ~ev.subst
    /\ ev.value = s

(***************************************************************************)
(* Spec: one run of main.                                                  *)
(***************************************************************************)
InputPaths == {"intro.html", "body.html", "outro.html", "typo.html"}

\* Which of the input paths are files on disk.
OnDisk(p) == p # "typo.html"

\* An inline script of a deck, as characters, so that the deck literal has
\* something to escape.
InlineScript(str) == Tok("chars", NoRef, str)

\* read_text(input_path)
InputText(p) ==
  CASE p = "intro.html" ->
         << HeadTag("<head>"), TitleTag("Intro"), Link(Ref("", "site.css")),
            Img(Ref("https://", "cdn/r")) >>
    [] p = "body.html" ->
         << HeadTag("<HEAD>"), Img(Ref("", "logo.png")), Script(Ref("", "gone.css")) >>
    [] p = "outro.html" ->
         << MetaTag("<meta charset=\"utf-8\">"), TitleTag("A &amp; B"),
            Link(Ref("", "assets")), InlineScript(<< "a", Btick, Bslash >>) >>
    [] OTHER -> << >>

\* Path.exists() without the test: every path is taken to exist.
PathExistsUnchecked(p) == TRUE

\* line 205: p.exists()
PathExists(p) == OnDisk(p)

\* process_html (lines 185-194) as one call: the three passes in order, then
\* the title.  raised: an exception left one of the passes.
process_html(p) ==
  LET r1 == Sub("link", InputText(p))
      r2 == Sub("script", Flatten(r1.chunks))
      r3 == Sub("img", Flatten(r2.chunks))
      inlined == Flatten(r3.chunks)
  IN CASE r1.raised -> [raised |-> TRUE, title |-> "", html |-> << >>, fs |-> r1.fs]
       [] r2.raised -> [raised |-> TRUE, title |-> "", html |-> << >>,
                        fs |-> r1.fs \cup r2.fs]
       [] r3.raised -> [raised |-> TRUE, title |-> "", html |-> << >>,
                        fs |-> r1.fs \cup r2.fs \cup r3.fs]
       [] OTHER     -> [raised |-> FALSE, title |-> extract_title(inlined, p),
                        html |-> inlined, fs |-> r1.fs \cup r2.fs \cup r3.fs]

\* decks.append(d) put at the front of the list instead.
ListPrepend(l, d) == << d >> \o l

\* lines 214-217: decks.append({...})
ListAppend(l, d) == Append(l, d)

\* lines 226-228: one deck as it is written into decks_js.  The spans of a
\* deck other than its inline script hold no backslash and no backtick.
EscapeToken(t) ==
  IF t.kind = "chars" THEN [t EXCEPT !.lit = Backticked(t.lit)] ELSE t

DeckLiteral(d) ==
  [title |-> d.title, html |-> [ j \in 1..Len(d.html) |-> EscapeToken(d.html[j]) ]]

\* The replacement fields str.format meets in RUNNER_TEMPLATE, in order
\* (lines 116-160): every brace of the style sheet and of the script opens
\* a field.
TemplateFields ==
  << "title", " --bg", "box-sizing", "height", "margin", "position", "display",
     "font-weight", "margin-left", "appearance", "height", "height", " width",
     "color", "title", "decks_json", "title, html" >>

\* line 230: the fields of the template that format() is given no value for
FormatMissing(kwargs) ==
  { j \in 1..Len(TemplateFields) : TemplateFields[j] \notin kwargs }

Init ==
  /\ inputs \in UNION { [1..n -> InputPaths] : n \in 1..MaxInputs }
  /\ pc = "validate" /\ v = 1 /\ k = 1 /\ decks = << >> /\ processed = << >>
  /\ program_title = << >> /\ decks_js = << >> /\ err = ""
  /\ writes = 0 /\ printed = FALSE
  /\ DocIdle /\ EscIdle /\ PlayerIdle

\* lines 204-206, one iteration
CheckInput ==
  /\ pc = "validate"
  /\ IF ~PathExists(inputs[v])
       THEN pc' = "fatal" /\ err' = "SystemExit" /\ UNCHANGED v
       ELSE /\ v' = v + 1
            /\ pc' = IF v = Len(inputs) THEN "process" ELSE "validate"
            /\ UNCHANGED err
  /\ UNCHANGED <<inputs, k, decks, processed, program_title, decks_js, writes,
                 printed, docVars, escVars, playerVars>>

\* lines 209-217, one iteration
ProcessDeck ==
  /\ pc = "process"
  /\ processed' = Append(processed, inputs[k])
  /\ IF ~OnDisk(inputs[k])
       THEN \* read_text raises FileNotFoundError
            /\ pc' = "crashed" /\ err' = "FileNotFoundError"
            /\ UNCHANGED <<k, decks, touched>>
       ELSE LET r == process_html(inputs[k]) IN
            /\ touched' = touched \cup r.fs
            /\ IF r.raised
                 THEN pc' = "crashed" /\ err' = "OSError" /\ UNCHANGED <<k, decks>>
                 ELSE /\ decks' = ListAppend(decks, [title |-> r.title,
                                                     html |-> EnsureCharset(r.html)])
                      /\ k' = k + 1
                      /\ pc' = IF k = Len(inputs) THEN "title" ELSE "process"
                      /\ UNCHANGED err
  /\ UNCHANGED <<inputs, v, program_title, decks_js, writes, printed,
                 raw, html_text, deck_html, dtitle, dpc, sub_in, chunks,
                 escVars, playerVars>>

\* line 220
PickTitle ==
  /\ pc = "title"
  /\ program_title' =
       IF Len(decks) > 1
         THEN << "Program - ", decks[1].title, " (+", ToString(Len(decks) - 1), ")" >>
         ELSE << decks[1].title >>
  /\ pc' = "serialize"
  /\ UNCHANGED <<inputs, v, k, decks, processed, decks_js, err, writes, printed,
                 docVars, escVars, playerVars>>

\* lines 226-228
Serialize ==
  /\ pc = "serialize"
  /\ decks_js' = [ j \in 1..Len(decks) |-> DeckLiteral(decks[j]) ]
  /\ pc' = "format"
  /\ UNCHANGED <<inputs, v, k, decks, processed, program_title, err, writes,
                 printed, docVars, escVars, playerVars>>

\* lines 230-234: format the template, write the output file, print its path
FormatAndWrite ==
  /\ pc = "format"
  /\ IF FormatMissing({"title", "decks_json"}) # {}
       THEN \* str.format raises KeyError at the first such field
            pc' = "crashed" /\ err' = "KeyError" /\ UNCHANGED <<writes, printed>>
       ELSE pc' = "done" /\ writes' = writes + 1 /\ printed' = TRUE /\ UNCHANGED err
  /\ UNCHANGED <<inputs, v, k, decks, processed, program_title, decks_js,
                 docVars, escVars, playerVars>>

Next == CheckInput \/ ProcessDeck \/ PickTitle \/ Serialize \/ FormatAndWrite

Spec == Init /\ [][Next]_vars

(***************************************************************************)
(* Properties of a run of main (Spec).                                     *)
(***************************************************************************)
Ended == pc \in {"done", "crashed", "fatal"}

\* C2: a run whose input paths all exist ends having processed every input,
\* written the output file exactly once and printed its path.
SuccessfulRunCompletes ==
  (Ended /\ \A j \in 1..Len(inputs) : OnDisk(inputs[j]))
    => /\ pc = "done"
       /\ writes = 1
       /\ printed
       /\ Len(processed) = Len(inputs)

\* C3: when some input path does not exist, at whatever position, no
\* document is ever read or processed, no asset is accessed and the output
\* file is never written; the run can only end with the fatal error.
FatalBeforeProcessing ==
  (\E j \in 1..Len(inputs) : ~OnDisk(inputs[j]))
    => /\ processed = << >> /\ decks = << >> /\ touched = {}
       /\ writes = 0 /\ ~printed
       /\ pc \in {"validate", "fatal"}

\* C3 witness: the run ended with the fatal error for a path that is last
\* in a list whose first path exists.
FatalLastWitness ==
  /\ pc = "fatal" /\ err = "SystemExit"
  /\ Len(inputs) >= 2
  /\ OnDisk(inputs[1]) /\ ~OnDisk(inputs[Len(inputs)])

\* The deck of one input path: its title and its content after the passes
\* and the charset step.
DeckOf(p) ==
  [title |-> process_html(p).title, html |-> EnsureCharset(process_html(p).html)]

\* C9: documents are processed one at a time in argument order, the k-th
\* deck is the result for the k-th input path, and the deck literal has one
\* entry per input path, the k-th built from the k-th deck.
OrderPreserved ==
  /\ Len(processed) <= Len(inputs)
  /\ processed = SubSeq(inputs, 1, Len(processed))
  /\ Len(decks) <= Len(processed)
  /\ \A j \in 1..Len(decks) : decks[j] = DeckOf(inputs[j])
  /\ (pc = "format" \/ decks_js # << >>)
       => /\ Len(decks_js) = Len(inputs)
          /\ \A j \in 1..Len(inputs) : decks_js[j] = DeckLiteral(DeckOf(inputs[j]))

\* C9 witness: the literal was built for two different decks.
OrderWitness ==
  /\ pc = "format"
  /\ Len(decks_js) = 2
  /\ decks_js[1] # decks_js[2]

(***************************************************************************)
(* SpecPlayer: the script of RUNNER_TEMPLATE (lines 149-178) in a browser.  *)
(* A JavaScript number is JSNum(n) or NaN.                                 *)
(***************************************************************************)
JSMin(a, b) == IF a.nan \/ b.nan THEN NaN ELSE IF a.n <= b.n THEN a ELSE b
JSMax(a, b) == IF a.nan \/ b.nan THEN NaN ELSE IF a.n >= b.n THEN a ELSE b
JSAdd(a, d) == IF a.nan THEN NaN ELSE JSNum(a.n + d)

HashChars == {"0", "1", "2", "5", "-", "x", "#"}

Digits == {"0", "1", "2", "5"}

DigitValue(c) == CASE c = "0" -> 0 [] c = "1" -> 1 [] c = "2" -> 2 [] OTHER -> 5

\* location.hash is empty or a "#" followed by at least one character.
Hashes ==
  { << >> } \cup
  UNION { { << "#" >> \o w : w \in [1..n -> HashChars] } : n \in 1..MaxHash }

\* str.replace('#', ''): the first "#" is removed.
RECURSIVE RemoveFirstHash(_)
RemoveFirstHash(str) ==
  IF str = << >> THEN << >>
  ELSE IF Head(str) = "#" THEN Tail(str)
  ELSE << Head(str) >> \o RemoveFirstHash(Tail(str))

\* The value of the longest run of digits that str starts with.
RECURSIVE DigitRun(_, _, _)
DigitRun(str, i, acc) ==
  IF i > Len(str) \/ str[i] \notin Digits THEN acc
  ELSE DigitRun(str, i + 1, 10 * acc + DigitValue(str[i]))

\* parseInt(str, 10): an optional sign, then digits; NaN when no digit
\* follows.
parseInt(str) ==
  LET neg  == str # << >> /\ str[1] = "-"
      from == IF neg THEN 2 ELSE 1
  IN IF from > Len(str) \/ str[from] \notin Digits THEN NaN
     ELSE JSNum((IF neg THEN -1 ELSE 1) * DigitRun(str, from, 0))

\* show(i) with a cursor that wraps around at both ends.
ShowWrap(i, n) == IF i.nan THEN NaN ELSE JSNum(i.n % n)

\* line 163: idx = Math.max(0, Math.min(total-1, i)), for total = n
Show(i, n) == JSMax(JSNum(0), JSMin(JSNum(n - 1), i))

\* line 178: the position the script starts at, for total = n
Start(h, n) ==
  LET frag0 == RemoveFirstHash(h)
      arg   == IF frag0 = << >> THEN << "1" >> ELSE frag0
  IN JSAdd(JSMax(JSNum(1), JSMin(JSNum(n), parseInt(arg))), -1)

\* show(i): the cursor is set, then update() (lines 157-162) runs.  With a
\* cursor that is no index of DECKS, d is undefined and update() throws
\* before it changes anything.
DoShow(i) ==
  /\ idx' = Show(i, total)
  /\ IF Show(i, total).nan
       THEN UNCHANGED <<shown, frag>>
       ELSE shown' = Show(i, total).n + 1 /\ frag' = Show(i, total).n + 1

InitPlayer ==
  /\ total \in 1..MaxDecks
  /\ hash \in Hashes
  /\ idx = JSNum(0) /\ shown = 0 /\ frag = 0 /\ last = NoEvent /\ ppc = "load"
  /\ DocIdle /\ MainIdle /\ EscIdle

\* lines 149-178, run once when the document loads
Load ==
  /\ ppc = "load"
  /\ DoShow(Start(hash, total))
  /\ ppc' = "ready"
  /\ UNCHANGED <<total, hash, last, docVars, mainVars, escVars>>

\* line 164
ClickPrev ==
  /\ ppc = "ready"
  /\ last' = [ev |-> "click_prev", from |-> idx]
  /\ DoShow(JSAdd(idx, -1))
  /\ UNCHANGED <<total, hash, ppc, docVars, mainVars, escVars>>

\* line 165
ClickNext ==
  /\ ppc = "ready"
  /\ last' = [ev |-> "click_next", from |-> idx]
  /\ DoShow(JSAdd(idx, 1))
  /\ UNCHANGED <<total, hash, ppc, docVars, mainVars, escVars>>

Keys == {"ArrowLeft", "ArrowRight", " ", "Enter"}

\* lines 166-169
KeyDown ==
  /\ ppc = "ready"
  /\ \E key \in Keys :
       /\ last' = [ev |-> key, from |-> idx]
       /\ CASE key = "ArrowLeft" -> DoShow(JSAdd(idx, -1))
            [] key \in {"ArrowRight", " "} -> DoShow(JSAdd(idx, 1))
            [] OTHER -> UNCHANGED <<idx, shown, frag>>
  /\ UNCHANGED <<total, hash, ppc, docVars, mainVars, escVars>>

\* lines 172-176: the current deck is written into a new window
Popout ==
  /\ ppc = "ready"
  /\ last' = [ev |-> "popout", from |-> idx]
  /\ UNCHANGED <<total, hash, idx, shown, frag, ppc, docVars, mainVars, escVars>>

NextPlayer == Load \/ ClickPrev \/ ClickNext \/ KeyDown \/ Popout

SpecPlayer == InitPlayer /\ [][NextPlayer]_vars

(***************************************************************************)
(* Properties of the player (SpecPlayer).                                  *)
(***************************************************************************)
InRange(c) == ~c.nan /\ 0 <= c.n /\ c.n <= total - 1

PrevEvents == {"click_prev", "ArrowLeft"}
NextEvents == {"click_next", "ArrowRight", " "}

\* C5: once loaded, the cursor is the 1-based position of the fragment
\* minus one, clamped into [0, total-1]; with no fragment, or one that is no
\* number, the cursor is 0 and the first deck is displayed.
InitialCursor ==
  (ppc = "ready" /\ last = NoEvent) =>
    LET pos == parseInt(RemoveFirstHash(hash)) IN
    IF hash = << >> \/ pos.nan
      THEN idx = JSNum(0) /\ shown = 1
      ELSE /\ InRange(idx)
           /\ idx.n = (IF pos.n < 1 THEN 1 ELSE IF pos.n > total THEN total ELSE pos.n) - 1
           /\ shown = idx.n + 1

\* C6: a Prev or Next transition that finds the cursor in [0, total-1]
\* leaves it there: Prev at 0 stays at 0, Next at total-1 stays at total-1,
\* and otherwise Prev lowers and Next raises the cursor by exactly one.
NavigationBounds ==
  (last.ev \in PrevEvents \cup NextEvents /\ InRange(last.from)) =>
    /\ InRange(idx)
    /\ last.ev \in PrevEvents =>
         idx.n = (IF last.from.n = 0 THEN 0 ELSE last.from.n - 1)
    /\ last.ev \in NextEvents =>
         idx.n = (IF last.from.n = total - 1 THEN total - 1 ELSE last.from.n + 1)

\* C6 witness: with three decks, Prev was clicked at cursor 0 and the
\* cursor is still 0.
PrevAtFirstWitness ==
  /\ total = 3
  /\ last = [ev |-> "click_prev", from |-> JSNum(0)]
  /\ idx = JSNum(0)

====
